---------------------------- MODULE Spec2Model ----------------------------
(***************************************************************************)
(* Model of AdAggregator (src/aggregator.py): the streaming reducer        *)
(* aggregate, the metric derivation compute_metrics and the ranked report  *)
(* writer write_reports / _write_csv.                                      *)
(*                                                                         *)
(* Representation.                                                         *)
(*  - A Python dict is a sequence of entries in insertion order, one per   *)
(*    key.                                                                 *)
(*  - A CSV field is a sequence of one-character strings; int() and        *)
(*    float() are computed on the characters.                              *)
(*  - spend is held in hundredths (the input alphabet has at most two      *)
(*    fractional digits); ctr and cpa are held in units of 10^-NDigits.    *)
(*  - Optional[float] is <<>> for None and <<v>> for the number v.         *)
(*  - A campaign id is the integer code of the id string.                  *)
(***************************************************************************)
EXTENDS Integers, Sequences, FiniteSets, TLC

VARIABLES
    results,    \* self._results
    metrics,    \* self._metrics
    disk,       \* the two report files of the output directory
    source,     \* the source handed to the latest aggregate call
    outcome,    \* how the latest aggregate call ended: "never", "ok", "failed"
    last,       \* the latest call, the exception it raised, the call before it
    calls       \* number of engine calls made so far

vars == <<results, metrics, disk, source, outcome, last, calls>>

----------------------------------------------------------------------------
(* Bounds of the model *)

MaxRows == 2       \* data rows of a generated source
MaxCalls == 4      \* engine calls in one behaviour
BigExtra == 1      \* the wide sources have TopN + BigExtra campaigns

(* Program constants *)

TopN == 10         \* [:10] in write_reports
NDigits == 4       \* round(x, 4)

Scale == 10 ^ NDigits

----------------------------------------------------------------------------
(* CSV fields and their parsing *)

DigitChars == <<"0", "1", "2", "3", "4", "5", "6", "7", "8", "9">>

DigitOf == [c \in {DigitChars[d] : d \in 1..Len(DigitChars)} |->
               (CHOOSE d \in 1..Len(DigitChars) : DigitChars[d] = c) - 1]

IsDigit(c) == c \in DOMAIN DigitOf

RECURSIVE DigitsVal(_)
DigitsVal(tok) ==
    IF tok = <<>> THEN 0
    ELSE 10 * DigitsVal(SubSeq(tok, 1, Len(tok) - 1)) + DigitOf[tok[Len(tok)]]

AllDigits(tok) == \A i \in 1..Len(tok) : IsDigit(tok[i])

Raised(kind) == [ok |-> FALSE, v |-> 0, raised |-> kind]

Parsed(v) == [ok |-> TRUE, v |-> v, raised |-> "none"]

\* int(s): a non-empty run of decimal digits, anything else raises ValueError
ParseInt(tok) ==
    IF Len(tok) > 0 /\ AllDigits(tok) THEN Parsed(DigitsVal(tok))
    ELSE Raised("ValueError")

\* float(s), in hundredths: digits with at most one decimal point and at least
\* one digit, anything else raises ValueError
ParseFloat(tok) ==
    IF \A i \in 1..Len(tok) : tok[i] # "." THEN
        IF Len(tok) > 0 /\ AllDigits(tok) THEN Parsed(100 * DigitsVal(tok))
        ELSE Raised("ValueError")
    ELSE LET p == CHOOSE i \in 1..Len(tok) : tok[i] = "."
             whole == SubSeq(tok, 1, p - 1)
             frac == SubSeq(tok, p + 1, Len(tok))
         IN  IF Len(tok) > 1 /\ Len(frac) <= 2 /\ AllDigits(whole) /\ AllDigits(frac)
             THEN Parsed(100 * DigitsVal(whole)
                           + (IF Len(frac) = 1 THEN 10 * DigitsVal(frac)
                              ELSE DigitsVal(frac)))
             ELSE Raised("ValueError")

Tok(n) == <<DigitChars[n + 1]>>

----------------------------------------------------------------------------
(* Sources *)

Required == {"campaign_id", "impressions", "clicks", "spend", "conversions"}

FullHeader == Required \cup {"date"}

Row(id, im, cl, sp, cv) ==
    [campaign_id |-> id, impressions |-> im, clicks |-> cl, spend |-> sp,
     conversions |-> cv]

RowPool ==
    { Row(1, Tok(3), Tok(1), <<"1", ".", "5">>, Tok(2)),
      Row(2, Tok(0), Tok(2), Tok(2), Tok(0)),
      Row(1, Tok(3), Tok(1), <<"x">>, <<"1", ".", "5">>) }

RECURSIVE SeqsUpTo(_, _)
SeqsUpTo(S, n) ==
    IF n = 0 THEN {<<>>}
    ELSE LET shorter == SeqsUpTo(S, n - 1)
         IN  shorter \cup {Append(s, x) : s \in {t \in shorter : Len(t) = n - 1}, x \in S}

\* sources with the full header
GoodHeaderSources ==
    {[header |-> FullHeader, rows |-> rs] : rs \in SeqsUpTo(RowPool, MaxRows)}

\* sources whose header lacks one required column, with 0 .. MaxRows rows
PlainRow == Row(1, Tok(3), Tok(1), <<"1", ".", "5">>, Tok(2))

MissingColumnSources ==
    {[header |-> FullHeader \ {c}, rows |-> [i \in 1..n |-> PlainRow]] :
        c \in Required, n \in 0..MaxRows}

\* one row per campaign 1..n; kind selects how many campaigns convert
BigRow(i, kind) ==
    Row(i, Tok(3), Tok((i * 3) % 5), Tok(1 + (i % 2)),
        CASE kind = 1 -> Tok(1 + (i % 3))
          [] kind = 2 -> Tok(i % 4)
          [] OTHER    -> Tok(0))

BigSources ==
    {[header |-> FullHeader, rows |-> [i \in 1..n |-> BigRow(i, kind)]] :
        n \in {TopN + BigExtra}, kind \in 1..3}

Sources == GoodHeaderSources \cup MissingColumnSources \cup BigSources

----------------------------------------------------------------------------
(* aggregate *)

Keys(d) == {d[i].campaign_id : i \in 1..Len(d)}

IndexOf(d, id) == CHOOSE i \in 1..Len(d) : d[i].campaign_id = id

Lookup(d, id) == d[IndexOf(d, id)]

NewEntry(id) ==
    [campaign_id |-> id, impressions |-> 0, clicks |-> 0, spend |-> 0,
     conversions |-> 0]

\* lines 42-48
Setdefault(res, id) ==
    IF \E i \in 1..Len(res) : res[i].campaign_id = id THEN res
    ELSE Append(res, NewEntry(id))

Fields == <<"impressions", "clicks", "spend", "conversions">>

\* int(row[...]) for the counters, float(row['spend'])
Parse(field, tok) == IF field = "spend" THEN ParseFloat(tok) ELSE ParseInt(tok)

\* lines 51-54: the four += statements of one row, in order, on entry at
RECURSIVE AddFields(_, _, _, _, _)
AddFields(header, row, res, at, k) ==
    IF k > Len(Fields) THEN [results |-> res, raised |-> "none"]
    ELSE LET field == Fields[k] IN
         IF field \notin header THEN [results |-> res, raised |-> "KeyError"]
         ELSE LET got == Parse(field, row[field]) IN
              IF ~got.ok THEN [results |-> res, raised |-> got.raised]
              ELSE AddFields(header, row,
                             [res EXCEPT ![at][field] = @ + got.v], at, k + 1)

\* lines 38-54: the loop over the rows, from row i on
RECURSIVE AggregateRows(_, _, _)
AggregateRows(src, i, res) ==
    IF i > Len(src.rows) THEN [results |-> res, raised |-> "none"]
    ELSE IF "campaign_id" \notin src.header
         THEN [results |-> res, raised |-> "KeyError"]
         ELSE LET row == src.rows[i]
                  entered == Setdefault(res, row.campaign_id)
                  out == AddFields(src.header, row, entered,
                                   IndexOf(entered, row.campaign_id), 1)
              IN  IF out.raised # "none" THEN out
                  ELSE AggregateRows(src, i + 1, out.results)

\* dict.clear()
Clear(d) == <<>>

\* a mutation of aggregate: the two clear() calls of lines 32-33 are missing
aggregate_noclear(st, src) ==
    LET out == AggregateRows(src, 1, st.results)
    IN  [results |-> out.results, metrics |-> st.metrics, raised |-> out.raised]

\* lines 32-56 on the engine state st = [results, metrics]
aggregate(st, src) ==
    LET out == AggregateRows(src, 1, Clear(st.results))
    IN  [results |-> out.results, metrics |-> Clear(st.metrics),
         raised |-> out.raised]

Aggregate(src) ==
    /\ calls < MaxCalls
    /\ LET out == aggregate([results |-> results, metrics |-> metrics], src)
       IN  /\ results' = out.results
           /\ metrics' = out.metrics
           /\ last' = [op |-> "aggregate", raised |-> out.raised, prev |-> last.op]
           /\ outcome' = IF out.raised = "none" THEN "ok" ELSE "failed"
    /\ source' = src
    /\ calls' = calls + 1
    /\ UNCHANGED disk

----------------------------------------------------------------------------

(* compute_metrics *)

\* round(n / d, NDigits) in units of 10^-NDigits, ties to even
RoundDiv(n, d) ==
    LET q == n \div d
        r == n % d
    IN  IF 2 * r < d THEN q
        ELSE IF 2 * r > d THEN q + 1
        ELSE IF q % 2 = 0 THEN q ELSE q + 1

None == <<>>

Some(v) == <<v>>

\* a mutation of MetricsOf: the quotients are truncated, not rounded
MetricsOfTruncated(data) ==
    LET ctr == IF data.impressions > 0
               THEN Some((data.clicks * Scale) \div data.impressions)
               ELSE Some(0)
        cpa == IF data.conversions > 0
               THEN Some((data.spend * (Scale \div 100)) \div data.conversions)
               ELSE None
    IN  [campaign_id |-> data.campaign_id, ctr |-> ctr[1], cpa |-> cpa]

\* a mutation of MetricsOf: no conversions gives a CPA of 0, not None
MetricsOfZeroCpa(data) ==
    LET ctr == IF data.impressions > 0
               THEN Some(RoundDiv(data.clicks * Scale, data.impressions))
               ELSE Some(0)
        cpa == IF data.conversions > 0
               THEN Some(RoundDiv(data.spend * (Scale \div 100), data.conversions))
               ELSE Some(0)
    IN  [campaign_id |-> data.campaign_id, ctr |-> ctr[1], cpa |-> cpa]

\* lines 101-115: the metrics of one accumulator
MetricsOf(data) ==
    LET ctr == IF data.impressions > 0
               THEN Some(RoundDiv(data.clicks * Scale, data.impressions))
               ELSE Some(0)
        cpa == IF data.conversions > 0
               THEN Some(RoundDiv(data.spend * (Scale \div 100), data.conversions))
               ELSE None
    IN  [campaign_id |-> data.campaign_id, ctr |-> ctr[1], cpa |-> cpa]

\* a mutation of compute_metrics: the loop pops each accumulator it reads
compute_metrics_popping(st) ==
    [results |-> <<>>,
     metrics |-> [i \in 1..Len(st.results) |-> MetricsOf(st.results[i])]]

\* lines 98-117 on the engine state st = [results, metrics]
compute_metrics(st) ==
    [results |-> st.results,
     metrics |-> [i \in 1..Len(st.results) |-> MetricsOf(st.results[i])]]

ComputeMetrics ==
    /\ calls < MaxCalls
    /\ LET out == compute_metrics([results |-> results, metrics |-> metrics])
       IN  /\ results' = out.results
           /\ metrics' = out.metrics
    /\ last' = [op |-> "compute_metrics", raised |-> "none", prev |-> last.op]
    /\ calls' = calls + 1
    /\ UNCHANGED <<disk, source, outcome>>

----------------------------------------------------------------------------
(* write_reports and _write_csv *)

NoFile == [exists |-> FALSE, header |-> <<>>, rows |-> <<>>]

ReportFiles == {"top10_ctr.csv", "top10_cpa.csv"}

fieldnames ==
    <<"campaign_id", "total_impressions", "total_clicks", "total_spend",
      "total_conversions", "CTR", "CPA">>

\* lines 147-158
ReportRow(res, m) ==
    LET raw == Lookup(res, m.campaign_id)
    IN  [campaign_id |-> m.campaign_id, impressions |-> raw.impressions,
         clicks |-> raw.clicks, spend |-> raw.spend,
         conversions |-> raw.conversions, ctr |-> m.ctr, cpa |-> m.cpa]

\* the order of sorted(key=..., reverse=...) on two keys
Before(kx, ky, reverse) == IF reverse THEN kx > ky ELSE kx < ky

\* sorted() is stable: x goes before the first element it is strictly before
RECURSIVE InsertSorted(_, _, _)
InsertSorted(s, x, reverse) ==
    IF s = <<>> THEN <<x>>
    ELSE IF Before(x.key, Head(s).key, reverse) THEN <<x>> \o s
         ELSE <<Head(s)>> \o InsertSorted(Tail(s), x, reverse)

\* sorted(s, key, reverse) on s = <<[key, row], ...>>
RECURSIVE Sorted(_, _)
Sorted(s, reverse) ==
    IF s = <<>> THEN <<>>
    ELSE InsertSorted(Sorted(SubSeq(s, 1, Len(s) - 1), reverse), s[Len(s)], reverse)

Rows(keyed) == [i \in 1..Len(keyed) |-> keyed[i].row]

Take(s, n) == SubSeq(s, 1, IF Len(s) < n THEN Len(s) ELSE n)

\* line 161
Top10Ctr(report_data) ==
    LET keyed == [i \in 1..Len(report_data) |->
                     [key |-> report_data[i].ctr, row |-> report_data[i]]]
    IN  Take(Rows(Sorted(keyed, TRUE)), TopN)

\* line 167
ValidCpa(report_data) == SelectSeq(report_data, LAMBDA r : r.cpa # None)

\* line 168
Top10Cpa(report_data) ==
    LET valid_cpa == ValidCpa(report_data)
        keyed == [i \in 1..Len(valid_cpa) |->
                     [key |-> valid_cpa[i].cpa[1], row |-> valid_cpa[i]]]
    IN  Take(Rows(Sorted(keyed, FALSE)), TopN)

\* lines 191-199: the cells of one written row
WRow(row) ==
    [campaign_id |-> row.campaign_id, total_impressions |-> row.impressions,
     total_clicks |-> row.clicks, total_spend |-> row.spend,
     total_conversions |-> row.conversions, CTR |-> row.ctr, CPA |-> row.cpa]

\* lines 181-200: the file at a path after _write_csv(path, data)
WriteCsv(old, data) ==
    IF data = <<>> THEN old
    ELSE [exists |-> TRUE, header |-> fieldnames,
          rows |-> [i \in 1..Len(data) |-> WRow(data[i])]]

WriteReports ==
    /\ calls < MaxCalls
    /\ LET st == IF metrics = <<>>
                 THEN compute_metrics([results |-> results, metrics |-> metrics])
                 ELSE [results |-> results, metrics |-> metrics]
           report_data ==
               [i \in 1..Len(st.metrics) |-> ReportRow(st.results, st.metrics[i])]
       IN  /\ results' = st.results
           /\ metrics' = st.metrics
           /\ disk' = [disk EXCEPT
                  !["top10_ctr.csv"] = WriteCsv(@, Top10Ctr(report_data)),
                  !["top10_cpa.csv"] = WriteCsv(@, Top10Cpa(report_data))]
    /\ last' = [op |-> "write_reports", raised |-> "none", prev |-> last.op]
    /\ calls' = calls + 1
    /\ UNCHANGED <<source, outcome>>

----------------------------------------------------------------------------

Init ==
    /\ results = <<>>
    /\ metrics = <<>>
    /\ disk = [f \in ReportFiles |-> NoFile]
    /\ source = [header |-> FullHeader, rows |-> <<>>]
    /\ outcome = "never"
    /\ last = [op |-> "init", raised |-> "none", prev |-> "init"]
    /\ calls = 0

Next ==
    \/ \E src \in Sources : Aggregate(src)
    \/ ComputeMetrics
    \/ WriteReports

Spec == Init /\ [][Next]_vars

----------------------------------------------------------------------------
(* Vocabulary of the properties *)

Abs(x) == IF x < 0 THEN 0 - x ELSE x

Min(a, b) == IF a < b THEN a ELSE b

\* r is n / d rounded to the nearest unit
IsRounded(r, n, d) == 2 * Abs(n - r * d) <= d

SourceIds(src) == {src.rows[i].campaign_id : i \in 1..Len(src.rows)}

\* the sum of a field over the rows of a campaign
RECURSIVE SumField(_, _, _)
SumField(rows, id, field) ==
    IF rows = <<>> THEN 0
    ELSE SumField(Tail(rows), id, field)
           + (IF Head(rows).campaign_id = id
              THEN Parse(field, Head(rows)[field]).v ELSE 0)

\* the source is one aggregate must reject
Malformed(src) ==
    \/ Required \ src.header # {}
    \/ \E i \in 1..Len(src.rows) : \E k \in 1..Len(Fields) :
           ~Parse(Fields[k], src.rows[i][Fields[k]]).ok

Converting(res) == {i \in 1..Len(res) : res[i].conversions > 0}

HeaderOnly(file) == file.exists /\ file.header = fieldnames /\ file.rows = <<>>

FileIds(file) == {file.rows[k].campaign_id : k \in 1..Len(file.rows)}

\* the rows the present accumulators give rise to
CurrentRows ==
    {WRow(ReportRow(results, MetricsOf(results[i]))) : i \in 1..Len(results)}

----------------------------------------------------------------------------
(* Properties *)

\* C1: after a successful aggregate(source), whatever calls came before, the
\* keys of the accumulator mapping are exactly the campaign ids of source,
\* every total is the sum of its field over the rows of that campaign, and no
\* metrics of an earlier aggregation remain.
C1_AggregateTotals ==
    (last.op = "aggregate" /\ last.raised = "none") =>
        /\ Keys(results) = SourceIds(source)
        /\ Len(results) = Cardinality(SourceIds(source))
        /\ \A i \in 1..Len(results) : \A k \in 1..Len(Fields) :
               results[i][Fields[k]] =
                   SumField(source.rows, results[i].campaign_id, Fields[k])
        /\ metrics = <<>>

\* a successful aggregation of a source with a repeated campaign, made after
\* a report on another campaign was written
C1_Witness ==
    /\ last.op = "aggregate" /\ last.raised = "none"
    /\ last.prev = "write_reports"
    /\ Len(source.rows) > Cardinality(SourceIds(source))
    /\ FileIds(disk["top10_ctr.csv"]) \ Keys(results) # {}

\* C2: after compute_metrics every campaign of the accumulator mapping has a
\* ctr of clicks / impressions rounded to NDigits places when impressions > 0
\* and of exactly 0 when impressions = 0.
C2_CtrFormula ==
    last.op = "compute_metrics" =>
        /\ Len(metrics) = Len(results)
        /\ \A i \in 1..Len(results) :
               /\ metrics[i].campaign_id = results[i].campaign_id
               /\ results[i].impressions > 0 =>
                      IsRounded(metrics[i].ctr, results[i].clicks * Scale,
                                results[i].impressions)
               /\ results[i].impressions = 0 => metrics[i].ctr = 0

\* metrics of a campaign with clicks and no impressions and of a campaign
\* whose quotient is not exact
C2_Witness ==
    /\ last.op = "compute_metrics"
    /\ \E i \in 1..Len(results) :
           results[i].impressions = 0 /\ results[i].clicks > 0
    /\ \E i \in 1..Len(results) :
           /\ results[i].impressions > 0
           /\ (results[i].clicks * Scale) % results[i].impressions # 0

\* C3: after compute_metrics every campaign with conversions > 0 has a cpa of
\* spend / conversions rounded to NDigits places, and every campaign with no
\* conversions has the absent marker None, never a number.
C3_CpaFormula ==
    last.op = "compute_metrics" =>
        /\ Len(metrics) = Len(results)
        /\ \A i \in 1..Len(results) :
               /\ metrics[i].campaign_id = results[i].campaign_id
               /\ results[i].conversions > 0 =>
                      /\ Len(metrics[i].cpa) = 1
                      /\ IsRounded(metrics[i].cpa[1],
                                   results[i].spend * (Scale \div 100),
                                   results[i].conversions)
               /\ results[i].conversions = 0 => metrics[i].cpa = None

\* metrics of a campaign without conversions and of a campaign whose cost per
\* conversion is not exact
C3_Witness ==
    /\ last.op = "compute_metrics"
    /\ \E i \in 1..Len(results) : results[i].conversions = 0
    /\ \E i \in 1..Len(results) :
           /\ results[i].conversions > 0
           /\ (results[i].spend * (Scale \div 100)) % results[i].conversions # 0

\* the CPA report matches the accumulators: no campaign without conversions,
\* min(TopN, m) rows, non-decreasing CPA, nothing cheaper left out
CpaReportRanked(file) ==
    /\ Len(file.rows) = Min(TopN, Cardinality(Converting(results)))
    /\ \A k \in 1..Len(file.rows) :
           /\ file.rows[k].campaign_id \in Keys(results)
           /\ Lookup(results, file.rows[k].campaign_id).conversions > 0
           /\ file.rows[k].CPA # None
    /\ \A k \in 1..(Len(file.rows) - 1) :
           file.rows[k].CPA[1] <= file.rows[k + 1].CPA[1]
    /\ \A i \in Converting(results) :
           results[i].campaign_id \notin FileIds(file) =>
               \A k \in 1..Len(file.rows) :
                   ~(MetricsOf(results[i]).cpa[1] < file.rows[k].CPA[1])

\* C4: when write_reports returns, the CPA report holds no campaign with zero
\* conversions, has min(TopN, m) data rows for the m campaigns with
\* conversions, is non-decreasing in CPA, and leaves out no campaign with a
\* CPA lower than one it holds.
C4_CpaReport ==
    last.op = "write_reports" => CpaReportRanked(disk["top10_cpa.csv"])

\* the CTR report matches the accumulators: min(TopN, n) rows of campaigns of
\* the mapping, an empty CPA cell for no conversions, non-increasing CTR,
\* nothing higher left out, equal CTRs in first-seen order
CtrReportRanked(file) ==
    /\ Len(file.rows) = Min(TopN, Len(results))
    /\ \A k \in 1..Len(file.rows) :
           /\ file.rows[k].campaign_id \in Keys(results)
           /\ Lookup(results, file.rows[k].campaign_id).conversions = 0 =>
                  file.rows[k].CPA = None
    /\ \A k \in 1..(Len(file.rows) - 1) :
           /\ file.rows[k].CTR >= file.rows[k + 1].CTR
           /\ file.rows[k].CTR = file.rows[k + 1].CTR =>
                  IndexOf(results, file.rows[k].campaign_id)
                      < IndexOf(results, file.rows[k + 1].campaign_id)
    /\ \A i \in 1..Len(results) :
           results[i].campaign_id \notin FileIds(file) =>
               \A k \in 1..Len(file.rows) :
                   ~(MetricsOf(results[i]).ctr > file.rows[k].CTR)

\* C5: when write_reports returns, the CTR report has min(TopN, n) data rows
\* drawn from all n campaigns (an empty CPA cell where CPA is absent), is
\* non-increasing in CTR, leaves out no campaign with a CTR higher than one it
\* holds, and keeps campaigns of equal CTR in first-seen order.
C5_CtrReport ==
    last.op = "write_reports" => CtrReportRanked(disk["top10_ctr.csv"])

\* C6: when write_reports returns, a report without data rows is a file
\* holding the header line only: both reports when the accumulator mapping is
\* empty, the CPA report when no campaign has conversions.
C6_EmptyReportsWritten ==
    last.op = "write_reports" =>
        /\ results = <<>> => \A f \in ReportFiles : HeaderOnly(disk[f])
        /\ Converting(results) = {} => HeaderOnly(disk["top10_cpa.csv"])

\* C7: when write_reports returns, every row of either report is a row of the
\* present accumulator state: no row of an earlier write_reports survives.
C7_Overwritten ==
    last.op = "write_reports" =>
        \A f \in ReportFiles : \A k \in 1..Len(disk[f].rows) :
            disk[f].rows[k] \in CurrentRows

\* C8: once aggregate has failed, and until the next aggregate, the engine
\* holds no totals of the rows read before the failure and no metrics
\* derived from them.
C8_NoPartialState ==
    outcome = "failed" => results = <<>> /\ metrics = <<>>

\* C9: aggregate raises for every source whose header lacks a required
\* column and for every source with a row whose counter does not parse.
C9_MalformedRejected ==
    (last.op = "aggregate" /\ Malformed(source)) => last.raised # "none"

\* C10: compute_metrics leaves the accumulator mapping as it was, and a
\* call of it made with no aggregate since the metrics were last derived
\* returns the same metrics mapping.
C10_Idempotent ==
    [][(last'.op = "compute_metrics" /\ calls' = calls + 1) =>
           /\ results' = results
           /\ last.op \in {"compute_metrics", "write_reports"} =>
                  metrics' = metrics]_vars

\* the second of two consecutive compute_metrics calls on a non-empty mapping
C10_Witness ==
    /\ last.op = "compute_metrics" /\ last.prev = "compute_metrics"
    /\ metrics # <<>>

=============================================================================
